---- MODULE Spec2Model ----
(***************************************************************************)
(* Dynamic pricing service (src/main.py): an in-memory pricing store, the  *)
(* price adjustment computation, the market-update webhook with its        *)
(* validation chain and exception handling, and the read endpoints.        *)
(*                                                                         *)
(* Numbers.  The state names a Python float by a decimal numeral:          *)
(*   prices and competitor prices  in 1/PriceUnit   (thousandths),         *)
(*   demand multipliers            in 1/DemandUnit  (tenths),              *)
(*   trend factors 1.1 / 0.9 / 1   in 1/FactorUnit  (tenths),              *)
(* and the numeral stands for the binary64 value nearest to it, which is   *)
(* what Python holds for it.  adjust_price computes on those binary64      *)
(* values: every product is rounded to 53 bits, ties to even, comparisons  *)
(* are exact, and round(x, 2) rounds the exact binary value of x.          *)
(*                                                                         *)
(* Clock.  datetime.datetime.now() is read once per startup record (lines  *)
(* 27, 28), at the write of an update (line 86), for the timestamp of its  *)
(* response (line 95) and for a health check (line 121); it is naive local *)
(* wall time, so two readings can be in either order.                      *)
(*                                                                         *)
(* Scheduling.  The endpoints are coroutines on one asyncio event loop.    *)
(* The only suspension point of the webhook is `await request.json()`;     *)
(* every other handler runs to completion without yielding.                *)
(***************************************************************************)
EXTENDS Integers, Sequences, FiniteSets, TLC

VARIABLES
    pricing_db,   \* the store: product id -> [price, last_updated]
    clock,        \* the latest value datetime.datetime.now() returned (naive local wall time)
    pc,           \* per connection: "idle" or "await_json" (suspended at line 66)
    hdr,          \* per connection: Content-Type header of the suspended request
    last,         \* the most recently completed exchange (endpoint, request, response)
    committed,    \* history: product id -> new_price of its latest 200 response (startup price if none)
    seen,         \* history: product id -> record returned by a GET since its latest update
    updates       \* history: product id -> number of successful updates

vars == <<pricing_db, clock, pc, hdr, last, committed, seen, updates>>

(***************************************************************************)
(* Bounds of the model.                                                    *)
(***************************************************************************)
NumConn == 2        \* concurrent connections
MaxTime == 1        \* the clock readings are 0..MaxTime
MaxUpdates == 2     \* successful updates in a run

(***************************************************************************)
(* Fixed-point representation.                                             *)
(***************************************************************************)
PriceUnit == 1000
DemandUnit == 10
FactorUnit == 10

RECURSIVE Pow10(_)
Pow10(n) == IF n = 0 THEN 1 ELSE 10 * Pow10(n - 1)

(***************************************************************************)
(* JSON values as Python objects.                                          *)
(***************************************************************************)
JNull == [kind |-> "null"]
JBool(b) == [kind |-> "bool", b |-> b]
JNum(n) == [kind |-> "number", n |-> n]
JStr(s) == [kind |-> "string", s |-> s]
JArr(a) == [kind |-> "array", items |-> a]
JObj(m) == [kind |-> "object", members |-> m]

NoMembers == <<>>

\* The characters of the string literals the model uses.
Chars(s) ==
    CASE s = "" -> <<>>
      [] s = "abc" -> <<"a", "b", "c">>
      [] s = "product_id" -> <<"p", "r", "o", "d", "u", "c", "t", "_", "i", "d">>
      [] s = "my_product_id" ->
            <<"m", "y", "_", "p", "r", "o", "d", "u", "c", "t", "_", "i", "d">>
      [] s = "text/plain" -> <<"t", "e", "x", "t", "/", "p", "l", "a", "i", "n">>
      [] s = "application/json" ->
            <<"a", "p", "p", "l", "i", "c", "a", "t", "i", "o", "n", "/", "j", "s", "o", "n">>
      [] s = "Application/JSON" ->
            <<"A", "p", "p", "l", "i", "c", "a", "t", "i", "o", "n", "/", "J", "S", "O", "N">>
      [] s = "application/json; charset=utf-8" ->
            <<"a", "p", "p", "l", "i", "c", "a", "t", "i", "o", "n", "/", "j", "s", "o", "n",
              ";", " ", "c", "h", "a", "r", "s", "e", "t", "=", "u", "t", "f", "-", "8">>

\* str.__contains__: sub occurs in s as a contiguous substring.
str_contains(s, sub) ==
    LET cs == Chars(s)
        cu == Chars(sub)
    IN  \E i \in 0..(Len(cs) - Len(cu)) : SubSeq(cs, i + 1, i + Len(cu)) = cu

(***************************************************************************)
(* Outcomes of evaluating Python code: a value, or a raised exception.     *)
(***************************************************************************)
Ok(v) == [tag |-> "ok", val |-> v]
Raise(type, msg) == [tag |-> "raise", type |-> type, msg |-> msg]
Detail(text, about) == [text |-> text, about |-> about]
HTTPException(status_code, detail) ==
    [tag |-> "http", status_code |-> status_code, detail |-> detail]

\* bool(data): Python truthiness of a parsed JSON value.
truthy(data) ==
    CASE data.kind = "null" -> FALSE
      [] data.kind = "bool" -> data.b
      [] data.kind = "number" -> data.n # 0
      [] data.kind = "string" -> data.s # ""
      [] data.kind = "array" -> Len(data.items) # 0
      [] data.kind = "object" -> DOMAIN data.members # {}

\* `key in data` for a str key: dispatches on the type of data.
py_in(key, data) ==
    CASE data.kind = "object" -> Ok(key \in DOMAIN data.members)
      [] data.kind = "array" ->
            Ok(\E i \in 1..Len(data.items) :
                   data.items[i].kind = "string" /\ data.items[i].s = key)
      [] data.kind = "string" -> Ok(str_contains(data.s, key))
      [] OTHER -> Raise("TypeError", "argument of type is not iterable")

\* data.get(key): dict.get, None when the key is absent; no such attribute otherwise.
py_get(data, key) ==
    IF data.kind = "object"
    THEN Ok(IF key \in DOMAIN data.members THEN data.members[key] ELSE JNull)
    ELSE Raise("AttributeError", "object has no attribute 'get'")

\* `product_id in pricing_db`: hashes the key, then compares it with the str keys.
in_pricing_db(product_id, db) ==
    IF product_id.kind \in {"array", "object"}
    THEN Raise("TypeError", "unhashable type")
    ELSE Ok(product_id.kind = "string" /\ product_id.s \in DOMAIN db)

(***************************************************************************)
(* Pricing store at startup.  Each record is stamped with its own reading  *)
(* of the clock: line 27 for product1, line 28 for product2.               *)
(***************************************************************************)
InitialPricingDb(now27, now28) ==
    [p \in {"product1", "product2"} |->
        [price |-> (IF p = "product1" THEN 100 ELSE 50) * PriceUnit,
         last_updated |-> IF p = "product1" THEN now27 ELSE now28]]

\* The price a product has at startup.
StartupPrice(p) == InitialPricingDb(0, 0)[p].price

(***************************************************************************)
(* Market data and price adjustment.                                       *)
(***************************************************************************)
Trends == {"rising", "falling", "stable"}

(***************************************************************************)
(* Natural numbers of any size: sequences of limbs in base LimbBase, the   *)
(* least significant limb first.  Host integers are 32 bits wide, and the  *)
(* significand of a binary64 value has 53.                                 *)
(***************************************************************************)
LimbBits == 15

RECURSIVE Pow2(_)
Pow2(n) == IF n = 0 THEN 1 ELSE 2 * Pow2(n - 1)

LimbBase == Pow2(LimbBits)

RECURSIVE big_of(_)
big_of(n) == IF n = 0 THEN <<>> ELSE <<n % LimbBase>> \o big_of(n \div LimbBase)

RECURSIVE big_to_int(_)
big_to_int(a) == IF a = <<>> THEN 0 ELSE a[1] + LimbBase * big_to_int(Tail(a))

\* a without its leading zero limbs
RECURSIVE big_trim(_)
big_trim(a) ==
    IF a # <<>> /\ a[Len(a)] = 0 THEN big_trim(SubSeq(a, 1, Len(a) - 1)) ELSE a

\* a + b + carry
RECURSIVE big_add(_, _, _)
big_add(a, b, carry) ==
    IF a = <<>> /\ b = <<>> THEN big_of(carry)
    ELSE LET t == (IF a = <<>> THEN 0 ELSE a[1]) + (IF b = <<>> THEN 0 ELSE b[1]) + carry
         IN  <<t % LimbBase>>
                 \o big_add(IF a = <<>> THEN a ELSE Tail(a),
                            IF b = <<>> THEN b ELSE Tail(b), t \div LimbBase)

\* a * k + carry, for 0 <= k <= LimbBase
RECURSIVE big_mul_small(_, _, _)
big_mul_small(a, k, carry) ==
    IF a = <<>> THEN big_of(carry)
    ELSE LET t == a[1] * k + carry
         IN  <<t % LimbBase>> \o big_mul_small(Tail(a), k, t \div LimbBase)

\* a * b
RECURSIVE big_mul(_, _)
big_mul(a, b) ==
    IF b = <<>> THEN <<>>
    ELSE big_add(big_mul_small(a, b[1], 0), <<0>> \o big_mul(a, Tail(b)), 0)

\* quotient and remainder of a by d, for 0 < d <= LimbBase
RECURSIVE big_div_small(_, _)
big_div_small(a, d) ==
    IF a = <<>> THEN [q |-> <<>>, r |-> 0]
    ELSE LET high == big_div_small(Tail(a), d)
             t == high.r * LimbBase + a[1]
         IN  [q |-> <<t \div d>> \o high.q, r |-> t % d]

\* a * 2^k
big_shl(a, k) ==
    big_mul_small([i \in 1..(k \div LimbBits) |-> 0] \o a, Pow2(k % LimbBits), 0)

\* -1, 0 or 1 as a is below, equal to or above b
RECURSIVE big_cmp(_, _)
big_cmp(a, b) ==
    IF a = <<>> /\ b = <<>> THEN 0
    ELSE LET high == big_cmp(IF a = <<>> THEN a ELSE Tail(a),
                             IF b = <<>> THEN b ELSE Tail(b))
             x == IF a = <<>> THEN 0 ELSE a[1]
             y == IF b = <<>> THEN 0 ELSE b[1]
         IN  IF high # 0 THEN high ELSE IF x < y THEN -1 ELSE IF x > y THEN 1 ELSE 0

RECURSIVE bit_length(_)
bit_length(n) == IF n = 0 THEN 0 ELSE 1 + bit_length(n \div 2)

\* the number of bits of a
big_bits(a) ==
    LET t == big_trim(a)
    IN  IF t = <<>> THEN 0 ELSE LimbBits * (Len(t) - 1) + bit_length(t[Len(t)])

\* a \div 2^k, and whether a discarded bit was set
big_shr(a, k) ==
    LET limbs == IF k \div LimbBits < Len(a) THEN k \div LimbBits ELSE Len(a)
        d == big_div_small(SubSeq(a, limbs + 1, Len(a)), Pow2(k % LimbBits))
    IN  [q |-> d.q, sticky |-> d.r # 0 \/ \E i \in 1..limbs : a[i] # 0]

\* a / 2^k rounded to the nearest integer, ties to even, for k >= 1
big_round_shift(a, k) ==
    LET h == big_shr(a, k - 1)
        guard == h.q # <<>> /\ h.q[1] % 2 = 1
        q == big_div_small(h.q, 2).q
        odd == q # <<>> /\ q[1] % 2 = 1
    IN  IF guard /\ (h.sticky \/ odd) THEN big_add(q, <<1>>, 0) ELSE q

(***************************************************************************)
(* Python floats (IEEE 754 binary64, non-negative, in the normal range):   *)
(* [m, e] is the value m * 2^e with m of at most 53 bits.                  *)
(***************************************************************************)
MantissaBits == 53
GuardBits == 66

\* n * 2^e rounded to a float, ties to even
fl_round(n, e) ==
    LET k == big_bits(n) - MantissaBits
    IN  IF k <= 0 THEN [m |-> big_trim(n), e |-> e]
        ELSE [m |-> big_trim(big_round_shift(n, k)), e |-> e + k]

\* The float Python holds for the decimal n / unit (0 <= n, 0 < unit <= LimbBase):
\* the quotient to GuardBits binary places, a sticky bit, then one rounding.
float_of(n, unit) ==
    LET d == big_div_small(big_shl(big_of(n), GuardBits), unit)
    IN  fl_round(big_mul_small(d.q, 2, IF d.r # 0 THEN 1 ELSE 0), -(GuardBits + 1))

\* x * y
fl_mul(x, y) == fl_round(big_mul(x.m, y.m), x.e + y.e)

\* -1, 0 or 1 as x < y, x == y or x > y
fl_cmp(x, y) ==
    LET e == IF x.e < y.e THEN x.e ELSE y.e
    IN  big_cmp(big_shl(x.m, x.e - e), big_shl(y.m, y.e - e))

\* -1, 0 or 1 as the float x is below, equal to or above the decimal n / unit
fl_cmp_decimal(x, n, unit) ==
    IF x.e >= 0
    THEN big_cmp(big_shl(big_mul_small(x.m, unit, 0), x.e), big_of(n))
    ELSE big_cmp(big_mul_small(x.m, unit, 0), big_shl(big_of(n), -x.e))

\* round(x, ndigits): the decimal of ndigits places nearest to the exact value
\* of x, the even one of two equally near; the result in 1/PriceUnit.
py_round(x, ndigits) ==
    LET scaled == big_mul_small(x.m, Pow10(ndigits), 0)
        n == IF x.e >= 0 THEN big_shl(scaled, x.e) ELSE big_round_shift(scaled, -x.e)
    IN  big_to_int(n) * (PriceUnit \div Pow10(ndigits))

\* max(a, b) and min(a, b): the first argument unless the second is beyond it
Max2(a, b) == IF fl_cmp(b, a) > 0 THEN b ELSE a
Min2(a, b) == IF fl_cmp(b, a) < 0 THEN b ELSE a

\* The float literals 1.1, 0.9 and 1.0
Float_1_1 == float_of(11, FactorUnit)
Float_0_9 == float_of(9, FactorUnit)
Float_1_0 == float_of(10, FactorUnit)

\* competitor_price * 0.9 and competitor_price * 1.1
CompetitorLow(market_data) ==
    fl_mul(float_of(market_data.competitor_price, PriceUnit), Float_0_9)
CompetitorHigh(market_data) ==
    fl_mul(float_of(market_data.competitor_price, PriceUnit), Float_1_1)

\* (variant) the trend is ignored
TrendFactor_flat(trend) == Float_1_0

\* (variant) the factors of rising and falling are exchanged
TrendFactor_swapped(trend) == IF trend = "rising" THEN Float_0_9 ELSE Float_1_1

\* lines 44-47: the factor of a rising or falling trend
TrendFactor(trend) == IF trend = "rising" THEN Float_1_1 ELSE Float_0_9

\* lines 42-47: new_price before the clamp; any other trend leaves it as it is
trended_price(current_price, market_data) ==
    LET new_price == fl_mul(float_of(current_price, PriceUnit),
                            float_of(market_data.demand, DemandUnit))
    IN  IF market_data.trend \in {"rising", "falling"}
        THEN fl_mul(new_price, TrendFactor(market_data.trend))
        ELSE new_price

\* (variant) the lower bound of the window is not applied
clamped_price_no_floor(current_price, market_data) ==
    Min2(trended_price(current_price, market_data), CompetitorHigh(market_data))

\* lines 50-51: new_price before rounding
clamped_price(current_price, market_data) ==
    LET new_price == trended_price(current_price, market_data)
    IN  Max2(CompetitorLow(market_data), Min2(new_price, CompetitorHigh(market_data)))

\* (variant) rounds to three decimals
adjust_price_round3(current_price, market_data) ==
    py_round(clamped_price(current_price, market_data), 3)

adjust_price(current_price, market_data) ==
    py_round(clamped_price(current_price, market_data), 2)

(***************************************************************************)
(* Simulated market data (get_market_data): samples of the three draws.    *)
(***************************************************************************)
\* random.uniform(a, b) is a + (b - a) * random.random(): of the tenths in
\* [0.5, 2.0] it returns every one but 0.9 and 2.0, and of [80, 120] it
\* returns both ends.
Demands == {5, 10, 11, 19}
CompetitorPrices == {80000, 120000}

MarketData ==
    [demand : Demands, competitor_price : CompetitorPrices, trend : Trends]

(***************************************************************************)
(* The results of adjust_price on the arguments the service can pass it,   *)
(* computed once: a function of <<current_price, market_data>> over the   *)
(* prices reached within n updates, each with every snapshot.              *)
(***************************************************************************)
tabulate(prices) ==
    [a \in prices \X MarketData |-> adjust_price(a[1], a[2])] @@ <<>>

RECURSIVE adjust_price_within(_)
adjust_price_within(n) ==
    IF n = 0
    THEN tabulate({StartupPrice(p) : p \in {"product1", "product2"}})
    ELSE LET before == adjust_price_within(n - 1)
         IN  before @@ tabulate({before[a] : a \in DOMAIN before}
                                    \ {a[1] : a \in DOMAIN before})

adjust_price_results == adjust_price_within(MaxUpdates - 1)

\* line 82: the call of adjust_price, looked up among the results when it is there
adjust_price_memo(current_price, market_data) ==
    IF <<current_price, market_data>> \in DOMAIN adjust_price_results
    THEN adjust_price_results[<<current_price, market_data>>]
    ELSE adjust_price(current_price, market_data)

(***************************************************************************)
(* The webhook handler, POST /webhook/market-update.                       *)
(***************************************************************************)
ContentTypes == {"", "text/plain", "application/json; charset=utf-8"}

\* What a request body can be: not JSON at all, or the text of a JSON value.
Malformed == [valid |-> FALSE]
JsonText(v) == [valid |-> TRUE, value |-> v]
Unread == [valid |-> FALSE, unread |-> TRUE]

ProductIdValues ==
    {JStr("product1"), JStr("product2"), JStr("unknown"), JNum(7), JNull,
     JArr(<<>>), JObj(NoMembers)}

JsonValues ==
    {JNull, JNum(5), JStr("abc"), JStr("my_product_id"),
     JArr(<<>>), JArr(<<JStr("product_id")>>),
     JObj(NoMembers), JObj("other" :> JNum(1))}
    \cup {JObj("product_id" :> v) : v \in ProductIdValues}

Bodies == {Malformed} \cup {JsonText(v) : v \in JsonValues}

\* lines 60-62
check_content_type(content_type) ==
    IF ~str_contains(content_type, "application/json")
    THEN HTTPException(400, Detail("Content-Type must be application/json", JNull))
    ELSE Ok(content_type)

\* lines 65-69: json.loads of the body; any failure becomes a 400
request_json(body) ==
    IF body.valid
    THEN Ok(body.value)
    ELSE HTTPException(400, Detail("Invalid JSON format", JNull))

\* lines 72-78: the product id of a valid request, or what was raised
validate_fields(data, db) ==
    LET present == IF ~truthy(data) THEN Ok(FALSE) ELSE py_in("product_id", data)
    IN  IF present.tag # "ok" THEN present
        ELSE IF ~present.val
        THEN HTTPException(400, Detail("Missing required field: product_id", JNull))
        ELSE LET product_id == py_get(data, "product_id")
             IN  IF product_id.tag # "ok" THEN product_id
                 ELSE LET found == in_pricing_db(product_id.val, db)
                      IN  IF found.tag # "ok" THEN found
                          ELSE IF ~found.val
                          THEN HTTPException(404, Detail("Product not found: ", product_id.val))
                          ELSE Ok(product_id.val.s)

\* (variant) the price is read from a copy taken at startup
read_price_stale(db, product_id) == StartupPrice(product_id)

\* line 81
read_price(db, product_id) == db[product_id].price

\* (variant) only the timestamp is written
update_pricing_lost(db, product_id, new_price, now) ==
    [db EXCEPT ![product_id] = [@ EXCEPT !.last_updated = now]]

\* (variant) the record is replaced by one that holds the price alone
update_pricing_replace(db, product_id, new_price, now) ==
    [db EXCEPT ![product_id] = [price |-> new_price]]

\* (variant) the price and the time are written to every record
update_pricing_all(db, product_id, new_price, now) ==
    [p \in DOMAIN db |-> [db[p] EXCEPT !.price = new_price, !.last_updated = now]]

\* (variant) only the price is written
update_pricing_price_only(db, product_id, new_price, now) ==
    [db EXCEPT ![product_id] = [@ EXCEPT !.price = new_price]]

\* lines 85-86
update_pricing(db, product_id, new_price, now) ==
    [db EXCEPT ![product_id] = [@ EXCEPT !.price = new_price, !.last_updated = now]]

\* lines 64-78: the product id of a request that passes validation, or what was raised
validated(body, db) ==
    LET data == request_json(body)
    IN  IF data.tag # "ok" THEN data ELSE validate_fields(data.val, db)

\* (variant) a request that fails validation stamps the records with its time
try_body_touch(body, db, market_data, now86, now95) ==
    LET product_id == validated(body, db)
    IN  IF product_id.tag # "ok"
        THEN [outcome |-> product_id,
              db |-> [p \in DOMAIN db |-> [db[p] EXCEPT !.last_updated = now86]]]
        ELSE LET current_price == read_price(db, product_id.val)
                 new_price == adjust_price_memo(current_price, market_data)
             IN  [outcome |->
                      Ok([product_id |-> product_id.val,
                          old_price |-> current_price,
                          new_price |-> new_price,
                          market_data |-> market_data,
                          timestamp |-> now95]),
                  db |-> update_pricing(db, product_id.val, new_price, now86)]

\* lines 64-96, the try body after the suspension: [outcome, db].  now86 is
\* the reading of the clock at line 86, now95 the one at line 95.
try_body(body, db, market_data, now86, now95) ==
    LET product_id == validated(body, db)
    IN  IF product_id.tag # "ok" THEN [outcome |-> product_id, db |-> db]
        ELSE LET current_price == read_price(db, product_id.val)
                 new_price == adjust_price_memo(current_price, market_data)
             IN  [outcome |->
                      Ok([product_id |-> product_id.val,
                          old_price |-> current_price,
                          new_price |-> new_price,
                          market_data |-> market_data,
                          timestamp |-> now95]),
                  db |-> update_pricing(db, product_id.val, new_price, now86)]

\* (variant) the exception text is sent to the client
unexpected_error_leak(e) == HTTPException(500, Detail(e.msg, JNull))

\* lines 101-104
unexpected_error(e) == HTTPException(500, Detail("Internal server error", JNull))

\* lines 98-104: the except clauses of the handler
except_clauses(outcome) ==
    CASE outcome.tag = "http" -> outcome
      [] outcome.tag = "raise" -> unexpected_error(outcome)
      [] OTHER -> outcome

\* What the framework sends for a handler's outcome.
respond(outcome) ==
    CASE outcome.tag = "ok" -> [status_code |-> 200, content |-> outcome.val]
      [] outcome.tag = "http" ->
            [status_code |-> outcome.status_code, content |-> [detail |-> outcome.detail]]
      [] OTHER -> [status_code |-> 500, content |-> [uncaught |-> outcome]]

market_update_webhook(outcome) == respond(except_clauses(outcome))

(***************************************************************************)
(* Read endpoints.                                                         *)
(***************************************************************************)
PathIds == {"product1", "product2", "unknown"}

\* (variant) the record is returned with the time of the request
get_pricing_now(db, product_id) ==
    IF product_id \notin DOMAIN db
    THEN HTTPException(404, Detail("Product not found: ", JStr(product_id)))
    ELSE Ok([db[product_id] EXCEPT !.last_updated = clock])

\* lines 107-111
get_pricing(db, product_id) ==
    IF product_id \notin DOMAIN db
    THEN HTTPException(404, Detail("Product not found: ", JStr(product_id)))
    ELSE Ok(db[product_id])

\* lines 114-116
get_all_pricing(db) == Ok(db)

\* (variant) the status reports the failure of the latest webhook request
health_check_degraded(now) ==
    Ok([status |-> IF last.endpoint = "webhook" /\ last.response.status_code >= 400
                   THEN "degraded" ELSE "healthy",
        timestamp |-> now])

\* lines 119-121
health_check(now) == Ok([status |-> "healthy", timestamp |-> now])

(***************************************************************************)
(* State machine.                                                          *)
(***************************************************************************)
Conns == 1..NumConn

NoExchange == [endpoint |-> "none"]
NoRecord == [none |-> TRUE]

Exchange(endpoint, request, raised, response) ==
    [endpoint |-> endpoint, request |-> request, raised |-> raised, response |-> response]

TotalUpdates == updates["product1"] + updates["product2"]

\* The module is imported: the two records are created with two readings of
\* the clock, which may have moved between them.
Init ==
    /\ \E now27 \in 0..MaxTime, now28 \in 0..MaxTime :
           /\ pricing_db = InitialPricingDb(now27, now28)
           /\ clock = now28
    /\ pc = [c \in Conns |-> "idle"]
    /\ hdr = [c \in Conns |-> ""]
    /\ last = NoExchange
    /\ committed = [p \in DOMAIN pricing_db |-> pricing_db[p].price]
    /\ seen = [p \in DOMAIN pricing_db |-> NoRecord]
    /\ updates = [p \in DOMAIN pricing_db |-> 0]

\* The wall clock moves: forward as time passes, back when the system clock
\* is set back or the local time zone leaves daylight saving time.
Tick ==
    /\ \E now \in 0..MaxTime : now # clock /\ clock' = now
    /\ UNCHANGED <<pricing_db, pc, hdr, last, committed, seen, updates>>

\* A webhook request arrives on connection c; the handler runs up to line 66.
Receive(c, content_type) ==
    /\ pc[c] = "idle"
    /\ LET checked == check_content_type(content_type)
       IN  IF checked.tag = "ok"
           THEN /\ pc' = [pc EXCEPT ![c] = "await_json"]
                /\ hdr' = [hdr EXCEPT ![c] = content_type]
                /\ UNCHANGED last
           ELSE /\ last' = Exchange("webhook",
                                    [content_type |-> content_type, body |-> Unread],
                                    checked, market_update_webhook(checked))
                /\ UNCHANGED <<pc, hdr>>
    /\ UNCHANGED <<pricing_db, clock, committed, seen, updates>>

\* The snapshots get_market_data() can return at line 80; it is not called
\* when validation fails.
NotGenerated == [demand |-> 0, competitor_price |-> 0, trend |-> "none"]

snapshots(body, db) ==
    IF validated(body, db).tag = "ok" THEN MarketData ELSE {NotGenerated}

\* The readings the clock can give at line 95; it is not read there when
\* validation fails.
readings(body, db) ==
    IF validated(body, db).tag = "ok" THEN 0..MaxTime ELSE {clock}

\* The body of the request on connection c has arrived; the handler runs from
\* line 66 to its end without yielding.  A successful update reads the clock
\* twice, at line 86 for last_updated and at line 95 for the timestamp of the
\* response, and the clock may have moved between the two.
Resume(c, body) ==
    /\ pc[c] = "await_json"
    /\ validated(body, pricing_db).tag = "ok" => TotalUpdates < MaxUpdates
    /\ \E market_data \in snapshots(body, pricing_db), now95 \in readings(body, pricing_db) :
       \E ran \in {try_body(body, pricing_db, market_data, clock, now95)} :
         LET response == market_update_webhook(ran.outcome)
         IN  /\ pricing_db' = ran.db
             /\ clock' = now95
             /\ last' = Exchange("webhook",
                                 [content_type |-> hdr[c], body |-> body],
                                 ran.outcome, response)
             /\ IF ran.outcome.tag = "ok"
                THEN LET p == ran.outcome.val.product_id
                     IN  /\ committed' = [committed EXCEPT ![p] = response.content.new_price]
                         /\ seen' = [seen EXCEPT ![p] = NoRecord]
                         /\ updates' = [updates EXCEPT ![p] = @ + 1]
                ELSE UNCHANGED <<committed, seen, updates>>
    /\ pc' = [pc EXCEPT ![c] = "idle"]
    /\ hdr' = [hdr EXCEPT ![c] = ""]

\* GET /pricing/{product_id}
GetPricing(product_id) ==
    /\ LET out == get_pricing(pricing_db, product_id)
       IN  /\ last' = Exchange("get_pricing", product_id, out, respond(out))
           /\ seen' = IF out.tag = "ok"
                      THEN [seen EXCEPT ![product_id] = out.val]
                      ELSE seen
    /\ UNCHANGED <<pricing_db, clock, pc, hdr, committed, updates>>

\* GET /pricing
GetAllPricing ==
    /\ LET out == get_all_pricing(pricing_db)
       IN  last' = Exchange("get_all_pricing", NoRecord, out, respond(out))
    /\ UNCHANGED <<pricing_db, clock, pc, hdr, committed, seen, updates>>

\* GET /health
HealthCheck ==
    /\ LET out == health_check(clock)
       IN  last' = Exchange("health_check", NoRecord, out, respond(out))
    /\ UNCHANGED <<pricing_db, clock, pc, hdr, committed, seen, updates>>

Next ==
    \/ Tick
    \/ \E c \in Conns, content_type \in ContentTypes : Receive(c, content_type)
    \/ \E c \in Conns, body \in Bodies : Resume(c, body)
    \/ \E product_id \in PathIds : GetPricing(product_id)
    \/ GetAllPricing
    \/ HealthCheck

Spec == Init /\ [][Next]_vars

(***************************************************************************)
(* adjust_price on its own: one call on an arbitrary positive price and a  *)
(* snapshot with a positive competitor price, not only those the service   *)
(* produces.                                                               *)
(***************************************************************************)
AdjustPrices == {1, 50000, 72100, 72150, 79995, 100000, 950000, 1000000}
AdjustDemands == {0, 5, 10, 15, 19, 30}
AdjustCompetitorPrices == {80000, 80001, 80050, 100000, 100005, 119999, 1000000}

AdjustMarketData ==
    [demand : AdjustDemands, competitor_price : AdjustCompetitorPrices, trend : Trends]

AdjustArguments == [current_price : AdjustPrices, market_data : AdjustMarketData]

InitAdjust ==
    /\ pricing_db = InitialPricingDb(0, 0)
    /\ clock = 0
    /\ pc = [c \in Conns |-> "idle"]
    /\ hdr = [c \in Conns |-> ""]
    /\ \E arguments \in AdjustArguments :
           last = [endpoint |-> "call", request |-> arguments]
    /\ committed = [p \in DOMAIN pricing_db |-> pricing_db[p].price]
    /\ seen = [p \in DOMAIN pricing_db |-> NoRecord]
    /\ updates = [p \in DOMAIN pricing_db |-> 0]

CallAdjustPrice ==
    /\ last.endpoint = "call"
    /\ last' = [endpoint |-> "adjust_price",
                request |-> last.request,
                response |-> adjust_price(last.request.current_price,
                                          last.request.market_data)]
    /\ UNCHANGED <<pricing_db, clock, pc, hdr, committed, seen, updates>>

NextAdjust == CallAdjustPrice

SpecAdjust == InitAdjust /\ [][NextAdjust]_vars

(***************************************************************************)
(* Vocabulary of the properties.                                           *)
(***************************************************************************)
Products == {"product1", "product2"}

IsWebhook == last.endpoint = "webhook"
IsUpdate == IsWebhook /\ last.response.status_code = 200
Status == last.response.status_code

\* The four checks of the validation chain, as the interface states them.
ContentTypeIsJson(request) == str_contains(request.content_type, "application/json")
BodyParses(request) == request.body.valid
HasProductId(request) ==
    /\ request.body.value.kind = "object"
    /\ "product_id" \in DOMAIN request.body.value.members
ProductIdOf(request) == request.body.value.members["product_id"]
ProductExists(request) ==
    /\ ProductIdOf(request).kind = "string"
    /\ ProductIdOf(request).s \in Products

MissingFieldError ==
    [status_code |-> 400,
     content |-> [detail |-> Detail("Missing required field: product_id", JNull)]]

\* The response the earliest failing check decides.
ExpectedResponse(request) ==
    IF ~ContentTypeIsJson(request)
    THEN [status_code |-> 400,
          content |-> [detail |-> Detail("Content-Type must be application/json", JNull)]]
    ELSE IF ~BodyParses(request)
    THEN [status_code |-> 400, content |-> [detail |-> Detail("Invalid JSON format", JNull)]]
    ELSE IF ~HasProductId(request) THEN MissingFieldError
    ELSE IF ~ProductExists(request)
    THEN [status_code |-> 404,
          content |-> [detail |-> Detail("Product not found: ", ProductIdOf(request))]]
    ELSE [status_code |-> 200]

(***************************************************************************)
(* Properties.                                                             *)
(***************************************************************************)

\* A step in which connection c's suspended request completes.
Completes(c) == pc[c] = "await_json" /\ pc'[c] = "idle"

\* C1: the read-compute-write cycle of an update is never interleaved with
\* another one: the old_price of every successful update is the price the
\* immediately preceding successful update of that product committed (the
\* startup price if there is none), whatever other requests are in flight.
C1_NoStaleRead ==
    [][\A c \in Conns :
          (Completes(c) /\ last'.response.status_code = 200) =>
              LET r == last'.response.content
              IN  /\ r.old_price = committed[r.product_id]
                  /\ pricing_db'[r.product_id].price = r.new_price]_vars

\* A product updated twice, the second time while another request was suspended.
C1_Witness ==
    /\ IsUpdate
    /\ updates[last.response.content.product_id] = 2
    /\ last.response.content.old_price # StartupPrice(last.response.content.product_id)
    /\ \E c \in Conns : pc[c] = "await_json"

\* C2: the response of the webhook is the one the earliest failing check of
\* the chain content type, JSON, product_id present, product known decides
\* (400, 400, 400, 404), and 200 when no check fails.
C2_EarliestCheckDecides ==
    IsWebhook =>
        LET e == ExpectedResponse(last.request)
        IN  IF e.status_code = 200 THEN Status = 200 ELSE last.response = e

\* C3: after a 200 of the webhook for a product, the store holds the
\* response's new_price for it, and a GET of that product before any further
\* update of it returns that price.
C3_StoreHoldsNewPrice ==
    \A p \in Products :
        updates[p] > 0 =>
            /\ pricing_db[p].price = committed[p]
            /\ seen[p] # NoRecord => seen[p].price = committed[p]

\* A GET of a product after its update.
C3_Witness ==
    /\ last.endpoint = "get_pricing"
    /\ last.request \in Products
    /\ updates[last.request] > 0
    /\ Status = 200
    /\ last.response.content.price = committed[last.request]
    /\ last.response.content.price # StartupPrice(last.request)

\* C4 as stated: the rounded value adjust_price returns lies within
\* [competitor_price * 0.9, competitor_price * 1.1].
C4_RoundedInWindow ==
    last.endpoint = "adjust_price" =>
        LET md == last.request.market_data
            returned == float_of(last.response, PriceUnit)
        IN  /\ fl_cmp(CompetitorLow(md), returned) <= 0
            /\ fl_cmp(returned, CompetitorHigh(md)) <= 0

\* C4 amended: the value before rounding lies within the window, and the
\* value returned is the two-decimal numeral nearest to it, so it lies within
\* [round(competitor_price * 0.9, 2), round(competitor_price * 1.1, 2)] and
\* at most 0.005 from the value before rounding.
C4_ClampedThenRounded ==
    last.endpoint = "adjust_price" =>
        LET md == last.request.market_data
            unrounded == clamped_price(last.request.current_price, md)
        IN  /\ fl_cmp(CompetitorLow(md), unrounded) <= 0
            /\ fl_cmp(unrounded, CompetitorHigh(md)) <= 0
            /\ py_round(CompetitorLow(md), 2) <= last.response
            /\ last.response <= py_round(CompetitorHigh(md), 2)
            /\ last.response % (PriceUnit \div 100) = 0
            /\ fl_cmp_decimal(unrounded, last.response + 5, PriceUnit) <= 0
            /\ \/ last.response < 5
               \/ fl_cmp_decimal(unrounded, last.response - 5, PriceUnit) >= 0

\* A call whose result rounding has moved below the window.
C4_Witness ==
    /\ last.endpoint = "adjust_price"
    /\ last.request.current_price > 0
    /\ fl_cmp(float_of(last.response, PriceUnit),
              CompetitorLow(last.request.market_data)) < 0

\* C5: with a JSON content type and a body that parses, a body that is empty
\* or has no top-level key product_id is answered 400 MissingField.
C5_MissingFieldIs400 ==
    (/\ IsWebhook
     /\ ContentTypeIsJson(last.request)
     /\ BodyParses(last.request)
     /\ ~HasProductId(last.request)) => last.response = MissingFieldError

\* C6: a product_id that is no key of the store is answered 404 by the
\* webhook and by GET /pricing/{product_id}, whatever its JSON type.
C6_UnknownProductIs404 ==
    /\ (/\ IsWebhook
        /\ ContentTypeIsJson(last.request)
        /\ BodyParses(last.request)
        /\ HasProductId(last.request)
        /\ ~ProductExists(last.request)) => Status = 404
    /\ (last.endpoint = "get_pricing" /\ last.request \notin Products) => Status = 404

\* C7: the keys of the store are the startup keys, and every key maps to a
\* record with a price and a last_updated field.
C7_KeysFixed ==
    /\ DOMAIN pricing_db = Products
    /\ \A p \in DOMAIN pricing_db : DOMAIN pricing_db[p] = {"price", "last_updated"}

\* The store after updates and after a request for an unknown product.
C7_Witness ==
    /\ IsWebhook
    /\ Status = 404
    /\ last.request.body.value.members["product_id"] = JStr("unknown")
    /\ TotalUpdates = MaxUpdates

\* C8: an exception raised in the handler that is not an HTTPException is
\* answered 500 with the fixed message and nothing of the exception; the
\* 400 and 404 errors pass unchanged; no exception leaves the handler, and
\* the connection is free for the next request.
C8_UnexpectedIs500 ==
    IsWebhook =>
        /\ last.raised.tag = "raise" =>
              /\ Status = 500
              /\ last.response.content = [detail |-> Detail("Internal server error", JNull)]
              /\ last.response.content.detail.text # last.raised.msg
        /\ last.raised.tag = "http" =>
              /\ Status = last.raised.status_code
              /\ Status \in {400, 404}
              /\ last.response.content = [detail |-> last.raised.detail]
        /\ "uncaught" \notin DOMAIN last.response.content
        /\ \A c \in Conns : pc[c] \in {"idle", "await_json"}

\* A request whose handling raised a TypeError.
C8_Witness ==
    /\ IsWebhook
    /\ last.raised.tag = "raise"
    /\ last.raised.type = "TypeError"
    /\ Status = 500

\* A step of one of the three read endpoints.
ReadStep ==
    /\ last'.endpoint \in {"get_pricing", "get_all_pricing", "health_check"}
    /\ pc' = pc
    /\ clock' = clock

\* C9: the read endpoints leave the store unchanged, and two GETs of a
\* product with no successful update of it in between return the same price
\* and last_updated.
C9_ReadsAreIdempotent ==
    [][/\ ReadStep => pricing_db' = pricing_db
       /\ \A p \in Products :
             (seen[p] # NoRecord /\ seen'[p] # NoRecord) => seen'[p] = seen[p]]_vars

\* A second GET of an updated product, later than the update.
C9_Witness ==
    /\ last.endpoint = "get_pricing"
    /\ last.request \in Products
    /\ seen[last.request] = last.response.content
    /\ updates[last.request] > 0
    /\ clock > pricing_db[last.request].last_updated

\* C10: every price in the store is non-negative with at most 2 decimals,
\* and every value adjust_price returned is non-negative.
C10_PricesRounded ==
    /\ \A p \in Products :
          /\ pricing_db[p].price >= 0
          /\ pricing_db[p].price % (PriceUnit \div 100) = 0
    /\ IsUpdate => last.response.content.new_price >= 0

\* An update whose price before rounding was not a whole number of cents.
C10_Witness ==
    /\ IsUpdate
    /\ py_round(clamped_price(last.response.content.old_price,
                              last.response.content.market_data), 3)
           # last.response.content.new_price
    /\ pricing_db[last.response.content.product_id].price
           = last.response.content.new_price

\* The computation is not clamped: the price before the clamp is in the window.
Unclamped(current_price, market_data) ==
    /\ fl_cmp(CompetitorLow(market_data), trended_price(current_price, market_data)) <= 0
    /\ fl_cmp(trended_price(current_price, market_data), CompetitorHigh(market_data)) <= 0

\* C11: with demand 1.0 and competitor_price 1000, adjust_price with trend
\* rising returns strictly more than with trend falling for the same price,
\* whenever neither computation is clamped.
C11_RisingAboveFalling ==
    (/\ last.endpoint = "adjust_price"
     /\ last.request.market_data.trend = "rising"
     /\ last.request.market_data.demand = DemandUnit
     /\ last.request.market_data.competitor_price = 1000 * PriceUnit) =>
        LET p == last.request.current_price
            falling == [last.request.market_data EXCEPT !.trend = "falling"]
        IN  (Unclamped(p, last.request.market_data) /\ Unclamped(p, falling)) =>
                last.response > adjust_price(p, falling)

\* A rising call at price 1000 that is not clamped, nor is its falling counterpart.
C11_Witness ==
    /\ last.endpoint = "adjust_price"
    /\ last.request.market_data.trend = "rising"
    /\ last.request.market_data.demand = DemandUnit
    /\ last.request.market_data.competitor_price = 1000 * PriceUnit
    /\ Unclamped(last.request.current_price, last.request.market_data)
    /\ Unclamped(last.request.current_price,
                 [last.request.market_data EXCEPT !.trend = "falling"])
    /\ last.response = 1100 * PriceUnit

\* C12: GET /health answers 200 with status "healthy" in every reachable
\* state, whatever the store holds and whatever webhook requests came before
\* or are in flight.
C12_AlwaysHealthy ==
    /\ respond(health_check(clock)).status_code = 200
    /\ respond(health_check(clock)).content.status = "healthy"
    /\ last.endpoint = "health_check" =>
          /\ Status = 200
          /\ last.response.content.status = "healthy"

\* A health check answered after updates of the store, with a webhook request suspended.
C12_Witness ==
    /\ last.endpoint = "health_check"
    /\ Status = 200
    /\ TotalUpdates > 0
    /\ \E c \in Conns : pc[c] = "await_json"

\* The reference computation round2(clamp(old_price * demand * f, 0.9 c, 1.1 c)),
\* f = 1.1 for rising, 0.9 for falling, 1 for stable, in float arithmetic.
RefFactor(trend) ==
    IF trend = "rising" THEN Float_1_1
    ELSE IF trend = "falling" THEN Float_0_9 ELSE Float_1_0

RefClamp(x, lo, hi) == IF fl_cmp(x, lo) < 0 THEN lo ELSE IF fl_cmp(x, hi) > 0 THEN hi ELSE x

\* The number of cents nearest to x, the even one of two equally near: the
\* candidates are the cents below x and the next.
RefRound2(x) ==
    LET below == big_to_int(big_shr(big_shl(big_mul_small(x.m, 100, 0),
                                            IF x.e > 0 THEN x.e ELSE 0),
                                    IF x.e < 0 THEN -x.e ELSE 0).q)
        middle == fl_cmp_decimal(x, 2 * below + 1, 200)
        nearest == IF middle < 0 THEN below
                   ELSE IF middle > 0 THEN below + 1
                   ELSE IF below % 2 = 0 THEN below ELSE below + 1
    IN  nearest * (PriceUnit \div 100)

Reference(old_price, market_data) ==
    LET c == float_of(market_data.competitor_price, PriceUnit)
    IN  RefRound2(RefClamp(fl_mul(fl_mul(float_of(old_price, PriceUnit),
                                         float_of(market_data.demand, DemandUnit)),
                                  RefFactor(market_data.trend)),
                           fl_mul(c, Float_0_9),
                           fl_mul(c, Float_1_1)))

\* C13: in every successful webhook response, old_price is the price the
\* store held for the product just before this update's write, market_data
\* is a snapshot of the generator, and new_price is the reference
\* computation on the returned old_price and market_data.
C13_ResponseMatchesReference ==
    /\ [](IsUpdate =>
             LET r == last.response.content
             IN  /\ r.market_data \in MarketData
                 /\ r.new_price = Reference(r.old_price, r.market_data)
                 /\ DOMAIN r = {"product_id", "old_price", "new_price",
                                "market_data", "timestamp"})
    /\ [][\A c \in Conns :
             (Completes(c) /\ last'.response.status_code = 200) =>
                 last'.response.content.old_price
                     = pricing_db[last'.response.content.product_id].price]_vars

\* A second update of a product, with a falling trend and not clamped by the
\* window, whose price before rounding is next to the middle of two cents:
\* 85.5 * 1.1 * 0.9 in floats is just above 84.645, and new_price is 84.65.
C13_Witness ==
    /\ IsUpdate
    /\ last.response.content.market_data.trend = "falling"
    /\ updates[last.response.content.product_id] = 2
    /\ last.response.content.old_price = 85500
    /\ last.response.content.market_data.demand = 11
    /\ last.response.content.new_price = 84650
    /\ Unclamped(last.response.content.old_price, last.response.content.market_data)
    /\ fl_cmp_decimal(trended_price(last.response.content.old_price,
                                    last.response.content.market_data),
                      84645, PriceUnit) > 0

\* C14: a successful update of product X overwrites the price and the
\* last_updated of X alone: the record of every other product is unchanged,
\* and nothing of the market snapshot is written into the store.
C14_OnlyTargetWritten ==
    [][\A c \in Conns :
          (Completes(c) /\ last'.response.status_code = 200) =>
              LET r == last'.response.content
              IN  /\ DOMAIN pricing_db' = DOMAIN pricing_db
                  /\ \A p \in DOMAIN pricing_db \ {r.product_id} :
                         pricing_db'[p] = pricing_db[p]
                  /\ pricing_db'[r.product_id] =
                         [price |-> r.new_price, last_updated |-> clock]]_vars

\* An update of one product after the other product was updated, earlier
\* and to another price; the other record is as its own update left it.
C14_Witness ==
    /\ IsUpdate
    /\ \E p \in Products \ {last.response.content.product_id} :
          /\ updates[p] > 0
          /\ pricing_db[p].price = committed[p]
          /\ pricing_db[p].price # last.response.content.new_price
          /\ pricing_db[p].last_updated
                 < pricing_db[last.response.content.product_id].last_updated

\* A step in which a webhook request is answered.
WebhookAnswered ==
    /\ last'.endpoint = "webhook"
    /\ \/ \E c \in Conns : Completes(c)
       \/ pc' = pc /\ last' # last

\* C15: a webhook request answered 400, 404 or 500 leaves the price and the
\* last_updated of every product as they were; the store changes only in a
\* step that answers 200.
C15_ErrorsLeaveStore ==
    [][/\ (WebhookAnswered /\ last'.response.status_code # 200) =>
              pricing_db' = pricing_db
       /\ pricing_db' # pricing_db =>
              (WebhookAnswered /\ last'.response.status_code = 200)]_vars

\* A request answered 500 after an update, later than that update.
C15_Witness ==
    /\ IsWebhook
    /\ Status = 500
    /\ \E p \in Products :
          /\ updates[p] > 0
          /\ pricing_db[p].price = committed[p]
          /\ pricing_db[p].last_updated < clock

\* What the GET endpoints have returned agrees with the store: no record is
\* observed with one field of an update and not the other.
ObservedRecordsWhole ==
    /\ \A p \in Products : seen[p] # NoRecord => seen[p] = pricing_db[p]
    /\ (last.endpoint = "get_pricing" /\ Status = 200) =>
           last.response.content = pricing_db[last.request]
    /\ last.endpoint = "get_all_pricing" => last.response.content = pricing_db

\* C16 as stated: the price and the last_updated of a product change
\* together: last_updated is the time of the product's latest successful
\* update (the startup time if there is none), it never decreases, and no GET
\* observes a record with an updated price and the earlier last_updated.
C16_PriceAndTimeTogether ==
    /\ [](/\ \A p \in Products : updates[p] = 0 => pricing_db[p].price = StartupPrice(p)
          /\ ObservedRecordsWhole)
    /\ [][\A p \in Products :
             /\ pricing_db'[p].last_updated >= pricing_db[p].last_updated
             /\ updates'[p] = updates[p] => pricing_db'[p] = pricing_db[p]
             /\ updates'[p] # updates[p] =>
                    pricing_db'[p] = [price |-> last'.response.content.new_price,
                                      last_updated |-> clock]]_vars

\* C16 amended: the price and the last_updated of a product change together
\* and only in a successful update of it: the record is the startup record
\* until the first update, afterwards last_updated is the wall-clock reading
\* taken at the write of the product's latest successful update, it decreases
\* only when that reading is earlier than the one before, and no GET observes
\* a record with an updated price and the earlier last_updated.
C16_StampedAtUpdate ==
    /\ [](/\ \A p \in Products : updates[p] = 0 => pricing_db[p].price = StartupPrice(p)
          /\ ObservedRecordsWhole)
    /\ [][\A p \in Products :
             /\ updates'[p] = updates[p] => pricing_db'[p] = pricing_db[p]
             /\ updates'[p] # updates[p] =>
                    pricing_db'[p] = [price |-> last'.response.content.new_price,
                                      last_updated |-> clock]
             /\ pricing_db'[p].last_updated < pricing_db[p].last_updated =>
                    /\ updates'[p] # updates[p]
                    /\ clock < pricing_db[p].last_updated]_vars

\* A GET of a product updated twice: the record bears the price of the
\* second update and the clock reading of that update, which is earlier than
\* the current one.
C16_Witness ==
    /\ last.endpoint = "get_pricing"
    /\ Status = 200
    /\ updates[last.request] = 2
    /\ last.response.content.last_updated = 0
    /\ last.response.content.price = committed[last.request]
    /\ last.response.content.price # StartupPrice(last.request)
    /\ clock > 0

\* C17: once a product has received a successful update, its stored price
\* lies in [72.00, 132.00] in every later state, whatever it was before; in
\* particular product2 does not hold its startup price 50.0 again.
C17_UpdatedPriceInRange ==
    \A p \in Products :
        updates[p] > 0 =>
            /\ 72 * PriceUnit <= pricing_db[p].price
            /\ pricing_db[p].price <= 132 * PriceUnit
            /\ p = "product2" => pricing_db[p].price # StartupPrice(p)

\* Both ends of the range are reached: product2 raised to 72.00 and product1 to 132.00.
C17_Witness ==
    /\ updates["product2"] > 0
    /\ pricing_db["product2"].price = 72 * PriceUnit
    /\ updates["product1"] > 0
    /\ pricing_db["product1"].price = 132 * PriceUnit

====
